---------------------------- MODULE Spec2Model ----------------------------
(***************************************************************************)
(* Model of message/client.go: the aliyun POP-protocol signing client.     *)
(* Strings are TLA+ strings; a character is a string of length one.        *)
(***************************************************************************)
EXTENDS Integers, Sequences, FiniteSets, TLC

(***************************************************************************)
(* Bounds of the model.                                                    *)
(***************************************************************************)
MaxLen == 2
MaxClock == 1
MaxSets == 2

(***************************************************************************)
(* Characters and bytes.                                                   *)
(***************************************************************************)
\* The printable ASCII characters in byte order: bytes 32..95 and 97..126
\* (byte 96, the backquote, cannot be written in a string of this notation).
AsciiLow == " !\"#$%&'()*+,-./0123456789:;<=>?@ABCDEFGHIJKLMNOPQRSTUVWXYZ[\\]^_"

AsciiHigh == "abcdefghijklmnopqrstuvwxyz{|}~"

CharAt(s, i) == SubSeq(s, i, i)

Chars == {CharAt(AsciiLow, i) : i \in 1..Len(AsciiLow)}
           \cup {CharAt(AsciiHigh, i) : i \in 1..Len(AsciiHigh)}

\* The byte value of a character.
Ord ==
  [c \in Chars |->
     IF \E i \in 1..Len(AsciiLow) : CharAt(AsciiLow, i) = c
     THEN 31 + (CHOOSE i \in 1..Len(AsciiLow) : CharAt(AsciiLow, i) = c)
     ELSE 96 + (CHOOSE i \in 1..Len(AsciiHigh) : CharAt(AsciiHigh, i) = c)]

UpperHex == "0123456789ABCDEF"

UpperLetters == "ABCDEFGHIJKLMNOPQRSTUVWXYZ"

LowerLetters == "abcdefghijklmnopqrstuvwxyz"

Digits == "0123456789"

\* The characters url.QueryEscape leaves alone: letters, digits, '-', '_', '.', '~'.
UnreservedStr == UpperLetters \o LowerLetters \o Digits \o "-_.~"

Unreserved == {CharAt(UnreservedStr, i) : i \in 1..Len(UnreservedStr)}

\* net/url escape of one byte: "%" and two upper-case hex digits.
PercentHex(c) ==
  "%" \o CharAt(UpperHex, (Ord[c] \div 16) + 1) \o CharAt(UpperHex, (Ord[c] % 16) + 1)

\* url.QueryEscape on one character.
EscapeChar(c) ==
  IF c \in Unreserved THEN c
  ELSE IF c = " " THEN "+"
  ELSE PercentHex(c)

\* The escapes of the characters lo..hi of s, concatenated (the range is
\* halved so that long strings are handled without deep recursion).
RECURSIVE QueryEscapeRange(_, _, _)
QueryEscapeRange(s, lo, hi) ==
  IF lo > hi THEN ""
  ELSE IF lo = hi THEN EscapeChar(CharAt(s, lo))
  ELSE LET mid == (lo + hi) \div 2
       IN  QueryEscapeRange(s, lo, mid) \o QueryEscapeRange(s, mid + 1, hi)

\* url.QueryEscape.
QueryEscape(s) == QueryEscapeRange(s, 1, Len(s))

\* The positions at or after i where old occurs in s.
MatchesFrom(s, old, i) ==
  {j \in i..(Len(s) - Len(old) + 1) : SubSeq(s, j, j + Len(old) - 1) = old}

\* Left to right: copy up to the next occurrence, write new, skip old.
RECURSIVE ReplaceFrom(_, _, _, _)
ReplaceFrom(s, old, new, i) ==
  LET ms == MatchesFrom(s, old, i)
  IN  IF ms = {} THEN SubSeq(s, i, Len(s))
      ELSE LET j == CHOOSE m \in ms : \A k \in ms : m <= k
           IN  SubSeq(s, i, j - 1) \o new \o ReplaceFrom(s, old, new, j + Len(old))

\* strings.Replace(s, old, new, -1) for a non-empty old.
Replace(s, old, new) == ReplaceFrom(s, old, new, 1)

\* A variant that passes already escaped input through unchanged.
SpecialURLEncodeSkipEscaped(str) ==
  IF \E i \in 1..Len(str) : CharAt(str, i) = "%" THEN str
  ELSE Replace(Replace(Replace(QueryEscape(str), "+", "%20"), "*", "%2A"), "%7E", "~")

\* SpecialURLEncode follows aliyun's POP protocol to do special URL encoding.
SpecialURLEncode(str) ==
  LET e0 == QueryEscape(str)
      e1 == Replace(e0, "+", "%20")
      e2 == Replace(e1, "*", "%2A")
      e3 == Replace(e2, "%7E", "~")
  IN  e3

(***************************************************************************)
(* HMAC-SHA1 and base64 (crypto/hmac, crypto/sha1, encoding/base64).       *)
(* The digest is modelled at a reduced width: DigestSextets groups of six  *)
(* bits, each a polynomial digest of the key and the message.              *)
(***************************************************************************)
Base64Alphabet == UpperLetters \o LowerLetters \o Digits \o "+/"

DigestSextets == 2

\* A polynomial digest, base b modulo 64, of the characters lo..hi of s: h
\* is the digest and w the weight of the range, so that two halves combine.
RECURSIVE Mix(_, _, _, _)
Mix(s, lo, hi, b) ==
  IF lo > hi THEN [h |-> 0, w |-> 1]
  ELSE IF lo = hi THEN [h |-> Ord[CharAt(s, lo)] % 64, w |-> b % 64]
  ELSE LET mid == (lo + hi) \div 2
           l == Mix(s, lo, mid, b)
           r == Mix(s, mid + 1, hi, b)
       IN  [h |-> (l.h * r.w + r.h) % 64, w |-> (l.w * r.w) % 64]

\* hmac.New(sha1.New, key); mac.Write(msg); mac.Sum(nil): a keyed digest,
\* as a sequence of six-bit groups.
HmacSha1(key, msg) ==
  [k \in 1..DigestSextets |->
     Mix(key \o "|" \o msg, 1, Len(key) + 1 + Len(msg), 29 + 2 * k).h] \o <<>>

\* base64.StdEncoding.EncodeToString: one digit for each six-bit group and
\* the "=" padding of a digest whose length is not a multiple of three bytes
\* (SHA-1: 20 bytes).
Base64(digest) ==
  LET n == Len(digest)
      digit(k) == CharAt(Base64Alphabet, digest[k] + 1)
      RECURSIVE Digits64(_)
      Digits64(k) == IF k > n THEN "" ELSE digit(k) \o Digits64(k + 1)
  IN  Digits64(1) \o "="

(***************************************************************************)
(* url.Values: a map from a key to a list of values.  The model keeps the  *)
(* entries in insertion order; Encode sorts the keys.                      *)
(***************************************************************************)
RECURSIVE StrLessFrom(_, _, _)
StrLessFrom(a, b, i) ==
  IF i > Len(b) THEN FALSE
  ELSE IF i > Len(a) THEN TRUE
  ELSE IF Ord[CharAt(a, i)] < Ord[CharAt(b, i)] THEN TRUE
  ELSE IF Ord[CharAt(a, i)] > Ord[CharAt(b, i)] THEN FALSE
  ELSE StrLessFrom(a, b, i + 1)

\* a < b in Go's byte-wise string order.
StrLess(a, b) == StrLessFrom(a, b, 1)

\* The place of keys[j] in ascending order: one more than the number of
\* entries that go before it.
RankOf(keys, j) ==
  1 + Cardinality({m \in 1..Len(keys) :
                     \/ StrLess(keys[m], keys[j])
                     \/ keys[m] = keys[j] /\ m < j})

\* A variant that leaves the keys in the order the map yields them.
Unsorted(keys) == keys

\* sort.Strings: the keys in ascending byte-wise order.
SortStrings(keys) ==
  LET rank == [j \in 1..Len(keys) |-> RankOf(keys, j)] \o <<>>
  IN  [i \in 1..Len(keys) |-> keys[CHOOSE j \in 1..Len(keys) : rank[j] = i]] \o <<>>

HasKey(v, k) == \E i \in 1..Len(v) : v[i].key = k

\* v[k]: the values of a key (nil when absent).
ValuesAt(v, k) ==
  IF HasKey(v, k) THEN v[CHOOSE i \in 1..Len(v) : v[i].key = k].vals ELSE <<>>

\* v.Get(k): the first value of a key, "" when absent.
Get(v, k) == IF ValuesAt(v, k) = <<>> THEN "" ELSE ValuesAt(v, k)[1]

\* A variant that keeps an entry that is already there.
SetIfAbsent(v, k, x) ==
  IF HasKey(v, k) THEN v ELSE Append(v, [key |-> k, vals |-> <<x>>])

\* v.Set(k, x): replaces the values of the key by the single value x.
Set(v, k, x) ==
  IF HasKey(v, k)
  THEN [i \in 1..Len(v) |-> IF v[i].key = k THEN [key |-> k, vals |-> <<x>>] ELSE v[i]]
  ELSE Append(v, [key |-> k, vals |-> <<x>>])

KeysOf(v) == [i \in 1..Len(v) |-> v[i].key]

\* The strings lo..hi of strs joined by sep.
RECURSIVE JoinRange(_, _, _, _)
JoinRange(strs, sep, lo, hi) ==
  IF lo > hi THEN ""
  ELSE IF lo = hi THEN strs[lo]
  ELSE LET mid == (lo + hi) \div 2
       IN  JoinRange(strs, sep, lo, mid) \o sep \o JoinRange(strs, sep, mid + 1, hi)

\* strings.Join.
Join(strs, sep) == JoinRange(strs, sep, 1, Len(strs))

\* The "key=value" pairs of one key, in the order of its values.
EncodeVals(k, vs) ==
  LET keyEscaped == QueryEscape(k)
  IN  [j \in 1..Len(vs) |-> keyEscaped \o "=" \o QueryEscape(vs[j])]

\* The pairs of the keys i..Len(keys), in that order.
RECURSIVE EncodeKeys(_, _, _)
EncodeKeys(v, keys, i) ==
  IF i > Len(keys) THEN <<>>
  ELSE EncodeVals(keys[i], ValuesAt(v, keys[i])) \o EncodeKeys(v, keys, i + 1)

\* v.Encode(): "bar=baz&foo=quux", sorted by key.
Encode(v) == Join(EncodeKeys(v, SortStrings(KeysOf(v)), 1), "&")

(***************************************************************************)
(* Signing.                                                                *)
(***************************************************************************)
\* The string SignedString signs.
StringToSign(httpMethod, sortedQueryStr) ==
  httpMethod \o "&" \o QueryEscape("/") \o "&" \o SpecialURLEncode(sortedQueryStr)

\* aliyun requires appending "&" after access key secret.
HmacKey(accessKeySecret) == accessKeySecret \o "&"

\* A variant that returns the bare base64 digest.
SignedStringRaw(c, httpMethod, sortedQueryStr) ==
  Base64(HmacSha1(HmacKey(c.accessKeySecret), StringToSign(httpMethod, sortedQueryStr)))

\* SignedString follow aliyun's POP protocol to generate the signature.
SignedString(c, httpMethod, sortedQueryStr) ==
  LET str  == StringToSign(httpMethod, sortedQueryStr)
      sign == Base64(HmacSha1(HmacKey(c.accessKeySecret), str))
  IN  SpecialURLEncode(sign)

\* NewClient creates a new client.
NewClient(accessKeyID, accessKeySecret) ==
  [accessKeyID |-> accessKeyID, accessKeySecret |-> accessKeySecret]

(***************************************************************************)
(* Helpers of the package whose source is not in client.go.                *)
(***************************************************************************)
TwoDigits(n) == CharAt(Digits, (n \div 10) + 1) \o CharAt(Digits, (n % 10) + 1)

\* GenTimestamp: the UTC time as "2006-01-02T15:04:05Z"; the clock of the
\* model counts the seconds of one minute.
GenTimestamp(t) == "2017-07-12T02:42:" \o TwoDigits(t) \o "Z"

\* GenPhoneNumbersStr: the phone numbers joined by ",".
GenPhoneNumbersStr(phoneNumbers) == Join(phoneNumbers, ",")

\* Param: an override; param.f(v) sets one key of the parameter set.
Param(key, value) == [key |-> key, value |-> value]

ApplyParam(param, v) == Set(v, param.key, param.value)

\* uuid.New(): the n-th identifier the generator hands out.
UuidOf(n) == "6ba7b810-9dad-11d1-80b4-00c04fd430c" \o CharAt(Digits, n + 1)

(***************************************************************************)
(* The steps of SendSMS and MakeSingleCallByTTS as functions of v.         *)
(***************************************************************************)
\* SetDefaultCommonParams, given the time and the UUID it read.
DefaultCommonParams(c, v, t, UUID) ==
  LET v1 == Set(v, "AccessKeyId", c.accessKeyID)
      v2 == Set(v1, "Timestamp", GenTimestamp(t))
      v3 == Set(v2, "Format", "JSON")
      v4 == Set(v3, "SignatureMethod", "HMAC-SHA1")
      v5 == Set(v4, "SignatureVersion", "1.0")
      v6 == Set(v5, "SignatureNonce", UUID)
  IN  v6

\* The default and required business parameters of the operation.
BusinessParams(op, args, v) ==
  IF op = "SendSMS"
  THEN LET v1 == Set(v, "Action", "SendSms")
           v2 == Set(v1, "Version", "2017-05-25")
           v3 == Set(v2, "RegionId", "cn-hangzhou")
           v4 == Set(v3, "PhoneNumbers", GenPhoneNumbersStr(args.phoneNumbers))
           v5 == Set(v4, "SignName", args.signName)
           v6 == Set(v5, "TemplateCode", args.templateCode)
           v7 == Set(v6, "TemplateParam", args.templateParam)
       IN  v7
  ELSE LET v1 == Set(v, "Action", "SingleCallByTts")
           v2 == Set(v1, "Version", "2017-05-25")
           v3 == Set(v2, "RegionId", "cn-hangzhou")
           v4 == Set(v3, "CalledShowNumber", args.calledShowNumber)
           v5 == Set(v4, "CalledNumber", args.calledNumber)
           v6 == Set(v5, "TtsCode", args.ttsCode)
           v7 == Set(v6, "TtsParam", args.ttsParam)
       IN  v7

RECURSIVE OverridesFrom(_, _, _)
OverridesFrom(params, v, i) ==
  IF i > Len(params) THEN v
  ELSE OverridesFrom(params, ApplyParam(params[i], v), i + 1)

\* A variant whose overrides do not replace what is already set.
OverridesKeepExisting(params, v) ==
  IF params = <<>> THEN v
  ELSE SetIfAbsent(OverridesFrom(SubSeq(params, 1, Len(params) - 1), v, 1),
                   params[Len(params)].key, params[Len(params)].value)

\* for _, param := range params { param.f(v) }
Overrides(params, v) == OverridesFrom(params, v, 1)

\* A variant that puts the signature after the parameters.
RawQuerySignatureLast(sign, sortedQueryStr) == sortedQueryStr \o "&Signature=" \o sign

\* fmt.Sprintf("Signature=%s&%s", sign, sortedQueryStr)
RawQuery(sign, sortedQueryStr) == "Signature=" \o sign \o "&" \o sortedQueryStr

Host(op) == IF op = "SendSMS" THEN "dysmsapi.aliyuncs.com" ELSE "dyvmsapi.aliyuncs.com"

\* u.String() of the URL with scheme http, the host, path "/" and the query.
URLString(op, rawQuery) == "http://" \o Host(op) \o "/?" \o rawQuery

\* http.NewRequest fails when the URL does not parse: a byte outside the
\* printable range.
ValidURL(u) == \A i \in 1..Len(u) : CharAt(u, i) \in Chars

(***************************************************************************)
(* Response handling.                                                      *)
(***************************************************************************)
UpperChar(c) ==
  IF \E i \in 1..Len(LowerLetters) : CharAt(LowerLetters, i) = c
  THEN CharAt(UpperLetters, CHOOSE i \in 1..Len(LowerLetters) : CharAt(LowerLetters, i) = c)
  ELSE c

RECURSIVE ToUpperRange(_, _, _)
ToUpperRange(s, lo, hi) ==
  IF lo > hi THEN ""
  ELSE IF lo = hi THEN UpperChar(CharAt(s, lo))
  ELSE LET mid == (lo + hi) \div 2
       IN  ToUpperRange(s, lo, mid) \o ToUpperRange(s, mid + 1, hi)

\* strings.ToUpper.
ToUpper(s) == ToUpperRange(s, 1, Len(s))

\* An exact comparison in place of the upper-cased one.
IsOKExact(code) == code = "OK"

\* strings.ToUpper(response.Code) != "OK", negated.
IsOK(code) == ToUpper(code) = "OK"

\* &SMSResponse{} and &SingleCallByTTSResponse{}.
ZeroResponse(op) ==
  IF op = "SendSMS"
  THEN [RequestID |-> "", Code |-> "", Message |-> "", BizID |-> ""]
  ELSE [RequestID |-> "", Code |-> "", Message |-> "", CallID |-> ""]

\* The struct field a JSON member name selects (names match without regard
\* to case), "" when none does.
FieldOf(r, name) ==
  LET u == ToUpper(name)
  IN  IF u = "REQUESTID" THEN "RequestID"
      ELSE IF u = "CODE" THEN "Code"
      ELSE IF u = "MESSAGE" THEN "Message"
      ELSE IF u = "BIZID" /\ "BizID" \in DOMAIN r THEN "BizID"
      ELSE IF u = "CALLID" /\ "CallID" \in DOMAIN r THEN "CallID"
      ELSE ""

RECURSIVE DecodeMembers(_, _, _)
DecodeMembers(members, i, acc) ==
  IF i > Len(members) THEN acc
  ELSE LET m == members[i]
           f == FieldOf(acc.r, m.name)
       IN  IF f = "" THEN DecodeMembers(members, i + 1, acc)
           ELSE IF m.type = "string"
                THEN DecodeMembers(members, i + 1, [acc EXCEPT !.r[f] = m.val])
                ELSE DecodeMembers(members, i + 1,
                       [acc EXCEPT !.err = IF acc.err = <<>>
                                           THEN <<"json: cannot unmarshal number into Go struct field">>
                                           ELSE acc.err])

\* json.Unmarshal(buf, response): the decoded struct and the error (<<>> is nil).
Unmarshal(body, zero) ==
  IF ~body.syntaxOK THEN [r |-> zero, err |-> <<"unexpected end of JSON input">>]
  ELSE IF body.top = "array"
       THEN [r |-> zero, err |-> <<"json: cannot unmarshal array into Go value">>]
  ELSE IF body.top = "null" THEN [r |-> zero, err |-> <<>>]
  ELSE DecodeMembers(body.members, 1, [r |-> zero, err |-> <<>>])

(***************************************************************************)
(* Inputs of the model.                                                    *)
(***************************************************************************)
Credentials == {<<"LTAIkey", "s3cret">>}

Ops == {"SendSMS", "MakeSingleCallByTTS"}

ArgsOf(op) ==
  IF op = "SendSMS"
  THEN {[phoneNumbers |-> <<"13800138000">>, signName |-> "my_product",
         templateCode |-> "SMS_0000", templateParam |-> "{\"code\":\"1234\"}"],
        [phoneNumbers |-> <<"13800138000", "13900139000">>, signName |-> "my product",
         templateCode |-> "SMS_0001", templateParam |-> "{}"]}
  ELSE {[calledShowNumber |-> "02560000000", calledNumber |-> "1500000000",
         ttsCode |-> "TTS_0000", ttsParam |-> "{\"code\":\"1234\"}"],
        [calledShowNumber |-> "02560000001", calledNumber |-> "1500000000",
         ttsCode |-> "TTS_0000", ttsParam |-> "a*b~c"]}

ParamLists(op) ==
  { <<>>,
    <<Param("Timestamp", "2017-01-01T00:00:00Z")>>,
    <<Param("SignatureNonce", "n1"), Param("SignatureNonce", "n2")>>,
    <<Param("Action", "QuerySendDetails"), Param("Timestamp", "2017-01-01T00:00:00Z"),
      Param("SignatureNonce", "fixed")>>,
    <<Param("Signature", "forged")>>,
    <<Param("OutId", "a b")>> }

Str(name, val) == [name |-> name, type |-> "string", val |-> val]

Num(name) == [name |-> name, type |-> "number", val |-> ""]

Object(members) == [syntaxOK |-> TRUE, top |-> "object", members |-> members]

Bodies ==
  { Object(<<Str("RequestId", "8906582E-6722"), Str("Code", "OK"), Str("Message", "OK"),
             Str("BizId", "134523^4351232"), Str("CallId", "100^2")>>),
    Object(<<Str("Code", "InvalidParameter"), Str("Message", "bad phone")>>),
    Object(<<Str("code", "ok")>>),
    Object(<<Str("Code", "OKAY")>>),
    Object(<<Num("Code"), Str("Message", "OK")>>),
    Object(<<>>),
    [syntaxOK |-> TRUE, top |-> "null", members |-> <<>>],
    [syntaxOK |-> TRUE, top |-> "array", members |-> <<>>],
    [syntaxOK |-> FALSE, top |-> "object", members |-> <<Str("RequestId", "")>>] }

\* What c.Do(req) can yield: a transport error, or a response of any status
\* whose body reads or fails to read.
Outcomes ==
  {[err |-> <<"dial tcp: i/o timeout">>, status |-> 0, readErr |-> <<>>, body |-> Object(<<>>)]}
  \cup {[err |-> <<>>, status |-> st, readErr |-> <<>>, body |-> b] :
          st \in {200, 400}, b \in Bodies}
  \cup {[err |-> <<>>, status |-> 200, readErr |-> <<"unexpected EOF">>, body |-> Object(<<>>)]}

(***************************************************************************)
(* State.                                                                  *)
(***************************************************************************)
VARIABLES
  client,     \* the shared Client: accessKeyID, accessKeySecret
  now,        \* time.Now(), in seconds
  uuidCount,  \* how many identifiers uuid.New() has handed out
  heap,       \* the url.Values maps, by address
  call,       \* the local variables and position of every call
  log,        \* the calls that have returned, in order of return
  wire,       \* the URLs handed to the HTTP transport, in order
  str,        \* input of the encoding functions
  method,     \* input of SignedString
  stage,      \* position of the function-level specifications
  enc1,       \* SpecialURLEncode(str)
  enc2,       \* SpecialURLEncode(enc1)
  sig,        \* SignedString(method, str)
  vA,         \* a parameter set built by Set steps
  vB          \* another one, built in another order

callVars == <<client, now, uuidCount, heap, call, log, wire>>

encVars == <<str, method, stage, enc1, enc2, sig>>

setVars == <<vA, vB>>

vars == <<client, now, uuidCount, heap, call, log, wire,
          str, method, stage, enc1, enc2, sig, vA, vB>>

\* The callers that share the client: two goroutines.
Procs == {1, 2}

NoResp == [err |-> <<>>, status |-> 0, readErr |-> <<>>, body |-> Object(<<>>)]

IdleCall ==
  [pc |-> "idle", op |-> "", args |-> <<>>, params |-> <<>>, v |-> 0,
   t |-> 0, UUID |-> "", uuidErr |-> <<>>,
   sortedQueryStr |-> "", sign |-> "", rawQuery |-> "", url |-> "",
   resp |-> NoResp, buf |-> Object(<<>>),
   site |-> "", ok |-> FALSE, response |-> <<>>, err |-> <<>>, started |-> 0]

InitCalls ==
  /\ client \in {NewClient(cr[1], cr[2]) : cr \in Credentials}
  /\ now = 0
  /\ uuidCount = 0
  /\ heap = [a \in Procs |-> <<>>]
  /\ call = [p \in Procs |-> IdleCall]
  /\ log = <<>>
  /\ wire = <<>>

InitEnc ==
  /\ str = "" /\ method = "GET" /\ stage = "off"
  /\ enc1 = "" /\ enc2 = "" /\ sig = ""

InitSets == vA = <<>> /\ vB = <<>>

(***************************************************************************)
(* SendSMS and MakeSingleCallByTTS, step by step.                          *)
(***************************************************************************)
\* A variant in which every call uses one map.
SharedValues(p) == 1

\* v := url.Values{}: every call allocates a map of its own.
NewValues(p) == p

\* The call of the operation: binds the arguments and allocates v.
CallFrom(p, inputs) ==
  /\ call[p].pc = "idle"
  /\ \E in \in inputs :
       /\ call' = [call EXCEPT ![p] =
                     [IdleCall EXCEPT !.pc = "defaults", !.op = in.op, !.args = in.args,
                                      !.params = in.params, !.v = NewValues(p),
                                      !.started = Len(log)]]
       /\ heap' = [heap EXCEPT ![NewValues(p)] = <<>>]
  /\ UNCHANGED <<client, now, uuidCount, log, wire, encVars, setVars>>

\* c.SetDefaultCommonParams(v): reads the clock and draws a UUID; the error
\* of uuid.New() is dropped, and a failed draw yields the empty string.
SetDefaultCommonParams(p) ==
  /\ call[p].pc = "defaults"
  /\ \E failed \in BOOLEAN :
       LET UUID == IF failed THEN "" ELSE UuidOf(uuidCount + 1)
       IN  /\ uuidCount' = IF failed THEN uuidCount ELSE uuidCount + 1
           /\ heap' = [heap EXCEPT ![call[p].v] =
                         DefaultCommonParams(client, heap[call[p].v], now, UUID)]
           /\ call' = [call EXCEPT ![p].pc = "business", ![p].t = now,
                                   ![p].UUID = UUID,
                                   ![p].uuidErr = IF failed THEN <<"uuid: read failed">>
                                                  ELSE <<>>]
  /\ UNCHANGED <<client, now, log, wire, encVars, setVars>>

\* v.Set of the default and required business parameters.
SetBusinessParams(p) ==
  /\ call[p].pc = "business"
  /\ heap' = [heap EXCEPT ![call[p].v] =
                BusinessParams(call[p].op, call[p].args, heap[call[p].v])]
  /\ call' = [call EXCEPT ![p].pc = "overrides"]
  /\ UNCHANGED <<client, now, uuidCount, log, wire, encVars, setVars>>

\* Override parameters if need.
ApplyOverrides(p) ==
  /\ call[p].pc = "overrides"
  /\ heap' = [heap EXCEPT ![call[p].v] = Overrides(call[p].params, heap[call[p].v])]
  /\ call' = [call EXCEPT ![p].pc = "encode"]
  /\ UNCHANGED <<client, now, uuidCount, log, wire, encVars, setVars>>

\* sortedQueryStr := v.Encode()
EncodeQuery(p) ==
  /\ call[p].pc = "encode"
  /\ call' = [call EXCEPT ![p].pc = "sign",
                          ![p].sortedQueryStr = Encode(heap[call[p].v])]
  /\ UNCHANGED <<client, now, uuidCount, heap, log, wire, encVars, setVars>>

\* sign := c.SignedString("GET", sortedQueryStr)
Sign(p) ==
  /\ call[p].pc = "sign"
  /\ call' = [call EXCEPT ![p].pc = "query",
                          ![p].sign = SignedString(client, "GET", call[p].sortedQueryStr)]
  /\ UNCHANGED <<client, now, uuidCount, heap, log, wire, encVars, setVars>>

\* rawQuery := fmt.Sprintf("Signature=%s&%s", sign, sortedQueryStr); u.String()
BuildQuery(p) ==
  /\ call[p].pc = "query"
  /\ LET rawQuery == RawQuery(call[p].sign, call[p].sortedQueryStr)
     IN  call' = [call EXCEPT ![p].pc = "newreq",
                              ![p].rawQuery = rawQuery,
                              ![p].url = URLString(call[p].op, rawQuery)]
  /\ UNCHANGED <<client, now, uuidCount, heap, log, wire, encVars, setVars>>

\* return ok, response, err: site names the return statement taken, rec
\* holds the local variables of the call at that point.
Return(p, rec, site, ok, response, err) ==
  /\ call' = [call EXCEPT ![p] = [rec EXCEPT !.pc = "done", !.site = site, !.ok = ok,
                                            !.response = response, !.err = err]]
  /\ log' = Append(log, [p |-> p, op |-> rec.op, args |-> rec.args,
                         sign |-> rec.sign, rawQuery |-> rec.rawQuery,
                         started |-> rec.started])

\* req, err := http.NewRequest("GET", u.String(), nil)
NewRequest(p) ==
  /\ call[p].pc = "newreq"
  /\ IF ValidURL(call[p].url)
     THEN call' = [call EXCEPT ![p].pc = "do"] /\ log' = log
     ELSE Return(p, call[p], "newreq", FALSE, <<>>, <<"parse: invalid URL">>)
  /\ UNCHANGED <<client, now, uuidCount, heap, wire, encVars, setVars>>

\* resp, err := c.Do(req)
DoFrom(p, outcomes) ==
  /\ call[p].pc = "do"
  /\ wire' = Append(wire, call[p].url)
  /\ \E out \in outcomes :
       IF out.err # <<>>
       THEN Return(p, [call[p] EXCEPT !.resp = out], "do", FALSE, <<>>, out.err)
       ELSE call' = [call EXCEPT ![p].pc = "read", ![p].resp = out] /\ log' = log
  /\ UNCHANGED <<client, now, uuidCount, heap, encVars, setVars>>

\* buf, err := ioutil.ReadAll(resp.Body)
ReadAll(p) ==
  /\ call[p].pc = "read"
  /\ IF call[p].resp.readErr # <<>>
     THEN Return(p, call[p], "read", FALSE, <<>>, call[p].resp.readErr)
     ELSE call' = [call EXCEPT ![p].pc = "parse", ![p].buf = call[p].resp.body]
          /\ log' = log
  /\ UNCHANGED <<client, now, uuidCount, heap, wire, encVars, setVars>>

\* A variant that hands the half-filled response back with a decode error.
ParseResponseKeepsResponse(p) ==
  /\ call[p].pc = "parse"
  /\ LET d == Unmarshal(call[p].buf, ZeroResponse(call[p].op))
     IN  IF d.err # <<>> THEN Return(p, call[p], "unmarshal", FALSE, <<d.r>>, d.err)
         ELSE IF ~IsOK(d.r.Code) THEN Return(p, call[p], "notok", FALSE, <<d.r>>, <<>>)
         ELSE Return(p, call[p], "ok", TRUE, <<d.r>>, <<>>)
  /\ UNCHANGED <<client, now, uuidCount, heap, wire, encVars, setVars>>

\* Parse JSON response, and derive the success flag from its Code.
ParseResponse(p) ==
  /\ call[p].pc = "parse"
  /\ LET d == Unmarshal(call[p].buf, ZeroResponse(call[p].op))
     IN  IF d.err # <<>> THEN Return(p, call[p], "unmarshal", FALSE, <<>>, d.err)
         ELSE IF ~IsOK(d.r.Code) THEN Return(p, call[p], "notok", FALSE, <<d.r>>, <<>>)
         ELSE Return(p, call[p], "ok", TRUE, <<d.r>>, <<>>)
  /\ UNCHANGED <<client, now, uuidCount, heap, wire, encVars, setVars>>

\* The clock advances.
Tick ==
  /\ now < MaxClock
  /\ now' = now + 1
  /\ UNCHANGED <<client, uuidCount, heap, call, log, wire, encVars, setVars>>

\* One caller, every input.
Inputs ==
  UNION {{[op |-> op, args |-> args, params |-> params] :
            args \in ArgsOf(op), params \in ParamLists(op)} : op \in Ops}

Call(p) == CallFrom(p, Inputs)

Do(p) == DoFrom(p, Outcomes)

Init == InitCalls /\ InitEnc /\ InitSets

Next ==
  \/ Call(1)
  \/ SetDefaultCommonParams(1)
  \/ SetBusinessParams(1)
  \/ ApplyOverrides(1)
  \/ EncodeQuery(1)
  \/ Sign(1)
  \/ BuildQuery(1)
  \/ NewRequest(1)
  \/ Do(1)
  \/ ReadAll(1)
  \/ ParseResponse(1)
  \/ Tick

Spec == Init /\ [][Next]_vars

(***************************************************************************)
(* The encoding and signing functions on bounded inputs.                   *)
(***************************************************************************)
EncAlphabet == {" ", "+", "*", "~", "%", "/", "=", "a", "2", "7", "E"}

RECURSIVE StringsUpTo(_)
StringsUpTo(n) ==
  IF n = 0 THEN {""}
  ELSE LET shorter == StringsUpTo(n - 1)
       IN  shorter \cup {s \o c : s \in shorter, c \in EncAlphabet}

Methods == {"GET", "POST"}

InitFn ==
  /\ InitCalls /\ InitSets
  /\ str \in StringsUpTo(MaxLen)
  /\ method \in Methods
  /\ stage = "input"
  /\ enc1 = "" /\ enc2 = "" /\ sig = ""

\* SpecialURLEncode(str)
EncodeOnce ==
  /\ stage = "input"
  /\ enc1' = SpecialURLEncode(str)
  /\ stage' = "enc1"
  /\ UNCHANGED <<callVars, setVars, str, method, enc2, sig>>

\* SpecialURLEncode on its own output.
EncodeTwice ==
  /\ stage = "enc1"
  /\ enc2' = SpecialURLEncode(enc1)
  /\ stage' = "enc2"
  /\ UNCHANGED <<callVars, setVars, str, method, enc1, sig>>

\* c.SignedString(method, str)
SignStr ==
  /\ stage = "input"
  /\ sig' = SignedString(client, method, str)
  /\ stage' = "signed"
  /\ UNCHANGED <<callVars, setVars, str, method, enc1, enc2>>

NextFn == EncodeOnce \/ EncodeTwice \/ SignStr

SpecFn == InitFn /\ [][NextFn]_vars

(***************************************************************************)
(* Two parameter sets built by Set steps in any order.                     *)
(***************************************************************************)
SetKeys == {"Timestamp", "Action", "SignName", "AccessKeyId"}

SetValues == {"SendSms", "a b"}

InitSetsSpec == InitCalls /\ InitEnc /\ InitSets

SetA(k, x) ==
  /\ Len(vA) < MaxSets \/ HasKey(vA, k)
  /\ vA' = Set(vA, k, x)
  /\ UNCHANGED <<callVars, encVars, vB>>

SetB(k, x) ==
  /\ Len(vB) < MaxSets \/ HasKey(vB, k)
  /\ vB' = Set(vB, k, x)
  /\ UNCHANGED <<callVars, encVars, vA>>

NextSets ==
  \E k \in SetKeys : \E x \in SetValues : SetA(k, x) \/ SetB(k, x)

SpecSets == InitSetsSpec /\ [][NextSets]_vars

(***************************************************************************)
(* Vocabulary of the properties.                                           *)
(***************************************************************************)
HasChar(s, c) == \E i \in 1..Len(s) : CharAt(s, i) = c

AllUnreserved(s) == \A i \in 1..Len(s) : CharAt(s, i) \in Unreserved

\* The places of the separator character in s.
SepPlaces(s, sep) == {i \in 1..Len(s) : CharAt(s, i) = sep}

\* The k-th smallest member of a set of numbers.
Kth(P, k) == CHOOSE i \in P : Cardinality({j \in P : j < i}) = k - 1

\* The pieces of s between the separators.
Split(s, sep) ==
  LET P == SepPlaces(s, sep)
      n == Cardinality(P)
      from(k) == IF k = 1 THEN 1 ELSE Kth(P, k - 1) + 1
      to(k) == IF k = n + 1 THEN Len(s) ELSE Kth(P, k) - 1
  IN  [k \in 1..(n + 1) |-> SubSeq(s, from(k), to(k))]

\* The text of a "key=value" piece before and after its first "=".
PairKey(piece) ==
  LET P == SepPlaces(piece, "=")
  IN  IF P = {} THEN piece ELSE SubSeq(piece, 1, Kth(P, 1) - 1)

PairValue(piece) ==
  LET P == SepPlaces(piece, "=")
  IN  IF P = {} THEN "" ELSE SubSeq(piece, Kth(P, 1) + 1, Len(piece))

\* The "key=value" pieces of a query string ("" has none).
QueryPieces(q) == IF q = "" THEN <<>> ELSE Split(q, "&")

\* The encoded values a query string gives for a key, in order.
QueryValues(q, k) ==
  LET ps == SelectSeq(QueryPieces(q), LAMBDA piece : PairKey(piece) = QueryEscape(k))
  IN  [i \in 1..Len(ps) |-> PairValue(ps[i])]

\* The POP encoding of one character, written out: RFC 3986 percent
\* encoding, in which only letters, digits, '-', '_', '.', '~' stay.
PopChar(c) ==
  CASE c = " " -> "%20"
    [] c = "+" -> "%2B"
    [] c = "*" -> "%2A"
    [] c = "%" -> "%25"
    [] c = "/" -> "%2F"
    [] c = "=" -> "%3D"
    [] c = "&" -> "%26"
    [] c = "~" -> "~"
    [] OTHER -> IF c \in Unreserved THEN c ELSE "?"

PopEncode(s) == Join([i \in 1..Len(s) |-> PopChar(CharAt(s, i))], "")

(***************************************************************************)
(* C8.  SpecialURLEncode on its own output.                                *)
(***************************************************************************)
\* C8 as stated: encoding the output of SpecialURLEncode again changes
\* nothing, SpecialURLEncode(SpecialURLEncode(s)) = SpecialURLEncode(s).
C8_Idempotent == stage = "enc2" => enc2 = enc1

\* C8 as amended: the second encoding changes nothing exactly when the input
\* has unreserved characters only; in every case it is the first encoding
\* with each "%" written "%25".
C8_IdempotentOnUnreserved ==
  stage = "enc2" =>
    /\ (enc2 = enc1) <=> AllUnreserved(str)
    /\ enc2 = Replace(enc1, "%", "%25")

C8_Witness == stage = "enc2" /\ str = " *" /\ enc1 = "%20%2A" /\ enc2 = "%2520%252A"

(***************************************************************************)
(* C9.  The sorted query string does not depend on the order of the Sets.  *)
(***************************************************************************)
Entries(v) == {<<v[i].key, v[i].vals>> : i \in 1..Len(v)}

Ascending(keys) == \A i \in 1..(Len(keys) - 1) : ~StrLess(keys[i + 1], keys[i])

QueryKeys(q) == [i \in 1..Len(QueryPieces(q)) |-> PairKey(QueryPieces(q)[i])]

\* C9: two parameter sets with the same entries, whatever the order of the Set
\* steps that built them, have the same sorted query string and the same
\* signature, and the keys of the string ascend byte-wise.
C9_OrderInvariant ==
  /\ Ascending(QueryKeys(Encode(vA)))
  /\ Entries(vA) = Entries(vB) =>
       /\ Encode(vA) = Encode(vB)
       /\ SignedString(client, "GET", Encode(vA)) = SignedString(client, "GET", Encode(vB))

C9_Witness ==
  /\ Len(vA) = 2 /\ vA # vB /\ Entries(vA) = Entries(vB)
  /\ StrLess(vA[2].key, vA[1].key)

(***************************************************************************)
(* C10.  What SignedString signs and returns.                              *)
(***************************************************************************)
\* C10: SignedString signs METHOD & %2F & POP-encoding of the sorted query
\* string, under the key secret&, and returns the POP encoding of the base64
\* digest, which has no '+', '/' or '='.
C10_SignedString ==
  stage = "signed" =>
    /\ StringToSign(method, str) = method \o "&" \o "%2F" \o "&" \o PopEncode(str)
    /\ HmacKey(client.accessKeySecret) = client.accessKeySecret \o "&"
    /\ sig = PopEncode(Base64(HmacSha1(client.accessKeySecret \o "&",
                                       method \o "&%2F&" \o PopEncode(str))))
    /\ ~HasChar(sig, "+") /\ ~HasChar(sig, "/") /\ ~HasChar(sig, "=")

C10_Witness ==
  /\ stage = "signed" /\ ~AllUnreserved(str)
  /\ \E i \in 1..(Len(sig) - 2) : SubSeq(sig, i, i + 2) \in {"%2B", "%2F"}

(***************************************************************************)
(* Positions of a call.                                                    *)
(***************************************************************************)
\* sortedQueryStr has been computed.
Encoded(p) == call[p].pc \in {"sign", "query", "newreq", "do", "read", "parse", "done"}

\* rawQuery has been assembled.
Built(p) == call[p].pc \in {"newreq", "do", "read", "parse", "done"}

\* The call came back from the statements that follow json.Unmarshal.
Parsed(p) == call[p].pc = "done" /\ call[p].site \in {"unmarshal", "notok", "ok"}

Decoded(p) == Unmarshal(call[p].buf, ZeroResponse(call[p].op))

(***************************************************************************)
(* C1.  The business outcome.                                              *)
(***************************************************************************)
\* C1: when the round trip completes and the body decodes, whatever the HTTP
\* status, the call returns no error and the decoded response, and success is
\* true exactly when Code is "OK" in any letter case.
C1_BusinessOutcome ==
  \A p \in Procs :
    (Parsed(p) /\ Decoded(p).err = <<>>) =>
      /\ call[p].err = <<>>
      /\ call[p].response = <<Decoded(p).r>>
      /\ call[p].ok <=> Decoded(p).r.Code \in {"OK", "Ok", "oK", "ok"}

C1_Witness ==
  \E p \in Procs :
    /\ Parsed(p) /\ call[p].resp.status = 400
    /\ call[p].ok /\ call[p].response # <<>> /\ call[p].response[1].Code = "ok"

(***************************************************************************)
(* C2.  Failures.                                                          *)
(***************************************************************************)
\* C2: a failure of request construction, transport, body read or decode
\* returns (false, nil, that error); a non-nil error comes with a nil response
\* and success=false, and success=true with a nil error and a response.
C2_Failures ==
  \A p \in Procs :
    call[p].pc = "done" =>
      LET c == call[p]
          failed == ~c.ok /\ c.response = <<>> /\ c.err # <<>>
      IN  /\ c.site = "newreq" => failed
          /\ (c.site = "do" \/ c.resp.err # <<>>) =>
               failed /\ c.site = "do" /\ c.err = c.resp.err
          /\ (c.site = "read" \/ (c.resp.err = <<>> /\ c.resp.readErr # <<>>)) =>
               failed /\ c.site = "read" /\ c.err = c.resp.readErr
          /\ (c.site = "unmarshal" \/ (Parsed(p) /\ Decoded(p).err # <<>>)) =>
               failed /\ c.site = "unmarshal" /\ c.err = Decoded(p).err
          /\ c.err # <<>> => c.response = <<>> /\ ~c.ok
          /\ c.ok => c.err = <<>> /\ c.response # <<>>

C2_Witness ==
  \E p \in Procs :
    /\ call[p].pc = "done" /\ call[p].site = "unmarshal" /\ ~call[p].buf.syntaxOK
    /\ call[p].response = <<>> /\ call[p].err # <<>>

(***************************************************************************)
(* C3.  Overrides take precedence.                                         *)
(***************************************************************************)
\* The value the last override of key k gives it.
LastOverride(params, k) ==
  params[CHOOSE i \in 1..Len(params) :
           /\ params[i].key = k
           /\ \A j \in (i + 1)..Len(params) : params[j].key # k].value

SetsSignature(params) == \E i \in 1..Len(params) : params[i].key = "Signature"

SignedQuery(p) ==
  /\ call[p].rawQuery = "Signature=" \o call[p].sign \o "&" \o call[p].sortedQueryStr
  /\ call[p].sign = SignedString(client, "GET", call[p].sortedQueryStr)
  /\ call[p].sortedQueryStr = Encode(heap[call[p].v])

\* C4 as stated: the query is "Signature=" sig "&" sortedQueryStr with sig
\* computed over that sortedQueryStr, it has exactly one Signature parameter,
\* and Signature is not part of the signed string, whatever the overrides.
C4_OneSignature ==
  \A p \in Procs :
    call[p].pc \in {"newreq", "do"} =>
      /\ SignedQuery(p)
      /\ Len(QueryValues(call[p].rawQuery, "Signature")) = 1
      /\ QueryValues(call[p].sortedQueryStr, "Signature") = <<>>

\* C4 as amended: the query is "Signature=" sig "&" sortedQueryStr with sig
\* computed over that sortedQueryStr; it has exactly one Signature parameter
\* and the signed string has none unless an override sets the key
\* "Signature": then the signed string carries the override's entry and the
\* query carries two, the computed one first.
C4_SignedQuery ==
  \A p \in Procs :
    call[p].pc \in {"newreq", "do"} =>
      /\ SignedQuery(p)
      /\ QueryValues(call[p].rawQuery, "Signature")[1] = call[p].sign
      /\ IF SetsSignature(call[p].params)
         THEN /\ Len(QueryValues(call[p].rawQuery, "Signature")) = 2
              /\ QueryValues(call[p].sortedQueryStr, "Signature")
                   = <<QueryEscape(LastOverride(call[p].params, "Signature"))>>
         ELSE /\ Len(QueryValues(call[p].rawQuery, "Signature")) = 1
              /\ QueryValues(call[p].sortedQueryStr, "Signature") = <<>>

C4_Witness ==
  \E p \in Procs :
    /\ call[p].pc = "do" /\ SetsSignature(call[p].params)
    /\ QueryValues(call[p].rawQuery, "Signature") = <<call[p].sign, "forged">>

(***************************************************************************)
(* C5.  A failure of the UUID generator.                                   *)
(***************************************************************************)
\* The part of a URL after "?".
QueryOfURL(u) == SubSeq(u, Kth(SepPlaces(u, "?"), 1) + 1, Len(u))

\* C5: when the UUID generator fails, the call reports an error, and no
\* request whose SignatureNonce is empty is signed or sent.
C5_NonceFailurePropagates ==
  /\ \A p \in Procs :
       call[p].uuidErr # <<>> =>
         /\ call[p].pc = "done" => call[p].err # <<>>
         /\ ~(call[p].pc \in {"query", "newreq", "do", "read", "parse"})
  /\ \A i \in 1..Len(wire) : QueryValues(QueryOfURL(wire[i]), "SignatureNonce") # <<"">>

(***************************************************************************)
(* Concurrent calls on one client.                                         *)
(***************************************************************************)
ConcArgsOf(op) ==
  IF op = "SendSMS"
  THEN {[phoneNumbers |-> <<"13800138000">>, signName |-> "my_product",
         templateCode |-> "SMS_0000", templateParam |-> "{}"]}
  ELSE {[calledShowNumber |-> "02560000000", calledNumber |-> "1500000000",
         ttsCode |-> "TTS_0000", ttsParam |-> "{}"]}

ConcParamLists(op) ==
  IF op = "SendSMS" THEN {<<>>} ELSE {<<Param("OutId", "a b")>>}

ConcOutcomes ==
  {[err |-> <<"dial tcp: i/o timeout">>, status |-> 0, readErr |-> <<>>, body |-> Object(<<>>)],
   [err |-> <<>>, status |-> 200, readErr |-> <<>>, body |-> Object(<<Str("Code", "OK")>>)]}

ConcInputs ==
  UNION {{[op |-> op, args |-> args, params |-> params] :
            args \in ConcArgsOf(op), params \in ConcParamLists(op)} : op \in Ops}

ConcCall(p) == CallFrom(p, ConcInputs)

ConcDo(p) == DoFrom(p, ConcOutcomes)

NextConc ==
  \/ \E p \in Procs :
       \/ ConcCall(p)
       \/ SetDefaultCommonParams(p)
       \/ SetBusinessParams(p)
       \/ ApplyOverrides(p)
       \/ EncodeQuery(p)
       \/ Sign(p)
       \/ BuildQuery(p)
       \/ NewRequest(p)
       \/ ConcDo(p)
       \/ ReadAll(p)
       \/ ParseResponse(p)
  \/ Tick

SpecConc == Init /\ [][NextConc]_vars

(***************************************************************************)
(* C6.  Consecutive calls.                                                 *)
(***************************************************************************)
\* C6: of two calls of the same operation with the same arguments, the second
\* begun after the first returned, the signatures and the queries differ.
C6_FreshSignature ==
  \A i \in 1..Len(log) : \A j \in 1..Len(log) :
    (i < j /\ log[j].started >= i /\ log[i].op = log[j].op /\ log[i].args = log[j].args) =>
      /\ log[i].sign # log[j].sign
      /\ log[i].rawQuery # log[j].rawQuery

(***************************************************************************)
(* C7.  Concurrent calls do not interfere.                                 *)
(***************************************************************************)
\* The query a call produces when it runs alone with its arguments, its
\* overrides, the time it read and the UUID it drew.
AloneQuery(c, rec) ==
  LET v == Overrides(rec.params,
             BusinessParams(rec.op, rec.args,
               DefaultCommonParams(c, <<>>, rec.t, rec.UUID)))
      q == Encode(v)
  IN  RawQuery(SignedString(c, "GET", q), q)

\* C7: in every interleaving the query of a call is the one it produces when
\* run alone, and the credentials of the client stay those given to NewClient.
C7_NoInterference ==
  /\ client \in {NewClient(cr[1], cr[2]) : cr \in Credentials}
  /\ \A p \in Procs :
       call[p].pc = "do" =>
         /\ call[p].rawQuery = AloneQuery(client, call[p])
         /\ call[p].url = URLString(call[p].op, call[p].rawQuery)

C7_Witness ==
  \E p \in Procs : \E q \in Procs :
    /\ p # q /\ call[p].pc = "do" /\ call[q].pc = "do"
    /\ call[p].op # call[q].op /\ call[p].params # call[q].params
    /\ call[p].t # call[q].t

=============================================================================
